---- MODULE Spec2Model ----
(***************************************************************************)
(* A/B test decision engine (src/src/app.py): one execution of the script  *)
(* on an uploaded dataset.  The pipeline is                                *)
(*   unique-groups check -> threshold slider -> outlier filter ->          *)
(*   raw rates -> bootstrap loop -> conclusion -> Mann-Whitney U test.     *)
(* Numbers that are floats in the program (means, differences, the         *)
(* probability, the p-value) are exact rationals <<num, den>>, den > 0,    *)
(* in lowest terms.                                                        *)
(***************************************************************************)
EXTENDS Integers, Sequences, FiniteSets, TLC

VARIABLES
    df_raw,            \* the uploaded dataset: a sequence of records
    unique_groups,     \* df_raw[group_col].unique(), first-appearance order
    group_a, group_b,  \* unique_groups[0], unique_groups[1] ("" before)
    threshold,         \* <<>> before the slider, <<t>> after
    threshold_supplied,\* TRUE when the user moved the slider
    df_clean,          \* the filtered copy
    removed_count,     \* <<>> before the filter, <<n>> after
    rates,             \* <<>> before, <<groupby-mean series>> after
    raw_diff,          \* <<>> before, <<rational>> after
    boot_sample,       \* the current resample (rows of df_clean)
    boot_diffs,        \* the differences collected so far
    i,                 \* loop counter of run_bootstrapping
    prob_a_better,     \* <<>> before, <<rational>> after
    verdict,           \* "none", "A_WINS", "B_WINS", "INCONCLUSIVE"
    u_stat, u_pval,    \* <<>> before, <<rational>> after
    engagement_significant, \* <<>> before, <<BOOLEAN>> after
    pc,                \* position in the script
    error,             \* "none" or the error that ended the run
    call_no,           \* which execution of run_bootstrapping's body this is
    first_result       \* <<>>, or <<boot_diffs of the first execution>>

vars == <<df_raw, unique_groups, group_a, group_b, threshold, threshold_supplied,
          df_clean, removed_count, rates, raw_diff, boot_sample, boot_diffs, i,
          prob_a_better, verdict, u_stat, u_pval, engagement_significant,
          pc, error, call_no, first_result>>

----------------------------------------------------------------------------
(* Bounds of the model *)

\* Largest number of rows of an uploaded dataset.
MaxRows == 3

\* Largest number of rows of a cleaned dataset handed to run_bootstrapping
\* in the specifications that start at its call.
MaxCleanRows == 3

\* Stand-in for the iteration count of run_bootstrapping (1000 in the program).
iterations == 2

\* Group labels, in the order in which a dataset may introduce them.
Labels == <<"gate_30", "gate_40", "gate_50">>

\* Values of the retention metric column.
MetricVals == {0, 1}

\* Values of the continuous column.
ContVals == {1, 2, 3001}

\* Slider positions the user may pick (within the slider's range).
SliderInputs == {1, 2}

\* p-values scipy may return for two non-empty samples.
PVals == {<<49, 1000>>, <<1, 20>>, <<1, 1>>}

----------------------------------------------------------------------------
(* Rational arithmetic *)

Abs(n) == IF n < 0 THEN -n ELSE n

RECURSIVE GCD(_, _)
GCD(a, b) == IF b = 0 THEN a ELSE GCD(b, a % b)

\* The rational n/d (d # 0) in lowest terms with a positive denominator.
Rat(n, d) ==
    LET g == GCD(Abs(n), Abs(d))
        s == IF d < 0 THEN -1 ELSE 1
    IN  <<(s * n) \div g, (s * d) \div g>>

RatSub(p, q) == Rat(p[1] * q[2] - q[1] * p[2], p[2] * q[2])

RatLess(p, q) == p[1] * q[2] < q[1] * p[2]

RatIsInt(p, n) == p[1] = n * p[2]

----------------------------------------------------------------------------
(* Sequence helpers *)

Range(s) == {s[k] : k \in 1..Len(s)}

RECURSIVE SumSeq(_)
SumSeq(s) == IF s = <<>> THEN 0 ELSE Head(s) + SumSeq(Tail(s))

\* The column `col` of a dataset as a sequence of values.
Column(df, col) == [k \in 1..Len(df) |-> df[k][col]]

\* Insert v into the ascending sequence s.
RECURSIVE Insert(_, _)
Insert(v, s) ==
    IF s = <<>> THEN <<v>>
    ELSE IF v <= Head(s) THEN <<v>> \o s
    ELSE <<Head(s)>> \o Insert(v, Tail(s))

RECURSIVE SortAsc(_)
SortAsc(s) == IF s = <<>> THEN <<>> ELSE Insert(Head(s), SortAsc(Tail(s)))

----------------------------------------------------------------------------
(* Inputs *)

Records == [group : Range(Labels), metric : MetricVals, continuous : ContVals]

LabelIdx(g) == CHOOSE k \in 1..Len(Labels) : Labels[k] = g

MaxOf(S) == CHOOSE m \in S : \A n \in S : n <= m
MinOf(S) == CHOOSE m \in S : \A n \in S : m <= n

\* A dataset names its groups in order of first appearance: its first row is
\* of Labels[1], the next new label is Labels[2], and so on.
FirstAppearanceOrder(df) ==
    \A k \in 1..Len(df) :
        LabelIdx(df[k].group) <=
            1 + MaxOf({0} \cup {LabelIdx(df[j].group) : j \in 1..(k - 1)})

Datasets ==
    UNION {{df \in [1..n -> Records] : FirstAppearanceOrder(df)} : n \in 0..MaxRows}

----------------------------------------------------------------------------
(* The computations of the script *)

\* df[group_col].unique(): the distinct labels in order of first appearance.
RECURSIVE Unique(_, _)
Unique(s, acc) ==
    IF s = <<>> THEN acc
    ELSE Unique(Tail(s), IF Head(s) \in Range(acc) THEN acc ELSE Append(acc, Head(s)))

UniqueGroups(df) == Unique(Column(df, "group"), <<>>)

\* The check with "fewer than 2" in place of "not 2".
WrongGroupCount_TooFew(groups) == Len(groups) < 2

\* len(unique_groups) != 2
WrongGroupCount(groups) == Len(groups) # 2

\* Series.quantile(0.99) with linear interpolation, for a non-empty column.
Quantile99(col) ==
    LET s    == SortAsc(col)
        pos  == 99 * (Len(s) - 1)
        lo   == (pos \div 100) + 1
        frac == pos % 100
    IN  IF frac = 0 THEN Rat(s[lo], 1)
        ELSE Rat(100 * s[lo] + frac * (s[lo + 1] - s[lo]), 100)

\* int(x) for x >= 0
IntOf(q) == q[1] \div q[2]

SliderMin(df) == MinOf(Range(Column(df, "continuous")))
SliderMax(df) == MaxOf(Range(Column(df, "continuous")))

\* value=3000 if 3000 < max else int(q99)
SliderValue(df) ==
    IF 3000 < SliderMax(df) THEN 3000
    ELSE IntOf(Quantile99(Column(df, "continuous")))

\* The filter with <= in place of <.
KeepRow_Inclusive(r, t) == r.continuous <= t

\* df_raw[df_raw[continuous_col] < threshold]
KeepRow(r, t) == r.continuous < t

CleanRows(df, t) == SelectSeq(df, LAMBDA r : KeepRow(r, t))

\* df[df[group_col] == g]
GroupRows(df, g) == SelectSeq(df, LAMBDA r : r.group = g)

\* df.groupby(group_col)[metric_col].mean(): a mean for every label present.
GroupByMean(df) ==
    [g \in Range(Column(df, "group")) |->
        Rat(SumSeq(Column(GroupRows(df, g), "metric")), Len(GroupRows(df, g)))]

\* The draws of n row positions with replacement, in index order.
Draws(n) == {d \in [1..n -> 1..n] : \A k \in 1..(n - 1) : d[k] <= d[k + 1]}

\* The difference taken the other way round.
Difference_Swapped(means, a, b) == RatSub(means[b], means[a])

\* means[group_a] - means[group_b]
Difference(means, a, b) == RatSub(means[a], means[b])

\* The comparison with >= in place of >.
IsPositive_OrZero(d) == d[1] >= 0

\* difference > 0
IsPositive(d) == d[1] > 0

\* (boot_df['difference'] > 0).mean(), for a non-empty frame: the share of
\* entries for which the comparison is True.
ProbABetter(diffs) ==
    Rat(Cardinality({k \in 1..Len(diffs) : IsPositive(diffs[k])}), Len(diffs))

\* The upper threshold with >= in place of >.
AboveUpper_Inclusive(p) == ~RatLess(p, <<95, 100>>)

\* prob_a_better > 0.95
AboveUpper(p) == RatLess(<<95, 100>>, p)

\* prob_a_better < 0.05
BelowLower(p) == RatLess(p, <<5, 100>>)

Recommendation(p) ==
    IF AboveUpper(p) THEN "A_WINS"
    ELSE IF BelowLower(p) THEN "B_WINS"
    ELSE "INCONCLUSIVE"

\* u_pval < 0.05
Significant(p) == RatLess(p, <<5, 100>>)

\* The U statistic of x against y: pairs with x above y, ties counting 1/2.
UStatistic(x, y) ==
    LET P == (1..Len(x)) \X (1..Len(y))
    IN  Rat(2 * Cardinality({q \in P : x[q[1]] > y[q[2]]})
              + Cardinality({q \in P : x[q[1]] = y[q[2]]}), 2)

----------------------------------------------------------------------------
(* The script, step by step *)

Init ==
    /\ df_raw \in Datasets
    /\ unique_groups = <<>>
    /\ group_a = ""
    /\ group_b = ""
    /\ threshold = <<>>
    /\ threshold_supplied = FALSE
    /\ df_clean = <<>>
    /\ removed_count = <<>>
    /\ rates = <<>>
    /\ raw_diff = <<>>
    /\ boot_sample = <<>>
    /\ boot_diffs = <<>>
    /\ i = 0
    /\ prob_a_better = <<>>
    /\ verdict = "none"
    /\ u_stat = <<>>
    /\ u_pval = <<>>
    /\ engagement_significant = <<>>
    /\ pc = "check_groups"
    /\ error = "none"
    /\ call_no = 1
    /\ first_result = <<>>

\* Lines 116-123: the unique-groups check on df_raw; st.error and st.stop
\* when the count is not 2.
CheckGroups ==
    /\ pc = "check_groups"
    /\ unique_groups' = UniqueGroups(df_raw)
    /\ IF WrongGroupCount(unique_groups')
       THEN /\ pc' = "stopped"
            /\ error' = "group_cardinality"
            /\ UNCHANGED <<group_a, group_b>>
       ELSE /\ group_a' = unique_groups'[1]
            /\ group_b' = unique_groups'[2]
            /\ pc' = "slider"
            /\ error' = error
    /\ UNCHANGED <<df_raw, threshold, threshold_supplied, df_clean, removed_count,
                   rates, raw_diff, boot_sample, boot_diffs, i, prob_a_better,
                   verdict, u_stat, u_pval, engagement_significant, call_no,
                   first_result>>

\* Lines 129-135: the slider over int(min)..int(max) with its default value;
\* st.slider raises when the default lies outside the range.  The user either
\* leaves the slider alone or picks a position within the range.
Slider ==
    /\ pc = "slider"
    /\ LET lo == SliderMin(df_raw)
           hi == SliderMax(df_raw)
           v  == SliderValue(df_raw)
       IN  IF v < lo \/ v > hi
           THEN /\ pc' = "failed"
                /\ error' = "StreamlitAPIException"
                /\ UNCHANGED <<threshold, threshold_supplied>>
           ELSE /\ pc' = "filter"
                /\ error' = error
                /\ \/ /\ threshold' = <<v>>
                      /\ threshold_supplied' = FALSE
                   \/ \E t \in SliderInputs :
                         /\ lo <= t /\ t <= hi
                         /\ threshold' = <<t>>
                         /\ threshold_supplied' = TRUE
    /\ UNCHANGED <<df_raw, unique_groups, group_a, group_b, df_clean, removed_count,
                   rates, raw_diff, boot_sample, boot_diffs, i, prob_a_better,
                   verdict, u_stat, u_pval, engagement_significant, call_no,
                   first_result>>

\* Lines 137-138: df_clean and removed_count.
Filter ==
    /\ pc = "filter"
    /\ df_clean' = CleanRows(df_raw, threshold[1])
    /\ removed_count' = <<Len(df_raw) - Len(df_clean')>>
    /\ pc' = "rates"
    /\ UNCHANGED <<df_raw, unique_groups, group_a, group_b, threshold,
                   threshold_supplied, rates, raw_diff, boot_sample, boot_diffs, i,
                   prob_a_better, verdict, u_stat, u_pval, engagement_significant,
                   error, call_no, first_result>>

\* Lines 152-154: the per-group rates of df_clean and their difference;
\* rates[group] raises KeyError for a label df_clean does not contain.
RawRates ==
    /\ pc = "rates"
    /\ rates' = <<GroupByMean(df_clean)>>
    /\ IF group_a \in DOMAIN rates'[1] /\ group_b \in DOMAIN rates'[1]
       THEN /\ raw_diff' = <<Difference(rates'[1], group_a, group_b)>>
            /\ pc' = "boot_loop"
            /\ error' = error
       ELSE /\ raw_diff' = raw_diff
            /\ pc' = "failed"
            /\ error' = "KeyError"
    /\ UNCHANGED <<df_raw, unique_groups, group_a, group_b, threshold,
                   threshold_supplied, df_clean, removed_count, boot_sample,
                   boot_diffs, i, prob_a_better, verdict, u_stat, u_pval,
                   engagement_significant, call_no, first_result>>

\* Lines 54-56: one more iteration; df.sample(frac=1, replace=True) draws
\* len(df) rows with replacement from the ambient random generator.  The
\* order of the drawn rows plays no part in what follows (a group-wise mean),
\* so the resample is kept in index order.
Resample ==
    /\ pc = "boot_loop"
    /\ i < iterations
    /\ \E draw \in Draws(Len(df_clean)) :
          boot_sample' = [k \in 1..Len(df_clean) |-> df_clean[draw[k]]]
    /\ pc' = "boot_means"
    /\ UNCHANGED <<df_raw, unique_groups, group_a, group_b, threshold,
                   threshold_supplied, df_clean, removed_count, rates, raw_diff,
                   boot_diffs, i, prob_a_better, verdict, u_stat, u_pval,
                   engagement_significant, error, call_no, first_result>>

\* Lines 57-61: the group means of the resample and their difference;
\* boot_means[group] raises KeyError for a label the resample does not contain.
BootMeans ==
    /\ pc = "boot_means"
    /\ LET boot_means == GroupByMean(boot_sample)
       IN  IF group_a \in DOMAIN boot_means /\ group_b \in DOMAIN boot_means
           THEN /\ boot_diffs' =
                      Append(boot_diffs, Difference(boot_means, group_a, group_b))
                /\ i' = i + 1
                /\ pc' = "boot_loop"
                /\ error' = error
           ELSE /\ UNCHANGED <<boot_diffs, i>>
                /\ pc' = "failed"
                /\ error' = "KeyError"
    /\ UNCHANGED <<df_raw, unique_groups, group_a, group_b, threshold,
                   threshold_supplied, df_clean, removed_count, rates, raw_diff,
                   boot_sample, prob_a_better, verdict, u_stat, u_pval,
                   engagement_significant, call_no, first_result>>

\* Lines 63 and 164: the loop is over; the differences are returned as boot_df
\* and the function's locals (the last resample) are gone.
BootReturn ==
    /\ pc = "boot_loop"
    /\ i >= iterations
    /\ boot_sample' = <<>>
    /\ pc' = "conclusion"
    /\ UNCHANGED <<df_raw, unique_groups, group_a, group_b, threshold,
                   threshold_supplied, df_clean, removed_count, rates, raw_diff,
                   boot_diffs, i, prob_a_better, verdict, u_stat,
                   u_pval, engagement_significant, error, call_no, first_result>>

\* Lines 175-184: prob_a_better and the recommendation.
Conclusion ==
    /\ pc = "conclusion"
    /\ prob_a_better' = <<ProbABetter(boot_diffs)>>
    /\ verdict' = Recommendation(prob_a_better'[1])
    /\ pc' = "mann_whitney"
    /\ UNCHANGED <<df_raw, unique_groups, group_a, group_b, threshold,
                   threshold_supplied, df_clean, removed_count, rates, raw_diff,
                   boot_sample, boot_diffs, i, u_stat, u_pval,
                   engagement_significant, error, call_no, first_result>>

\* Lines 190-201: stats.mannwhitneyu on the two groups' continuous values and
\* the significance message.  The p-value is scipy's: any of PVals.  An empty
\* sample (ValueError in scipy) cannot get here: line 154 has failed before.
MannWhitney ==
    /\ pc = "mann_whitney"
    /\ LET x == Column(GroupRows(df_clean, group_a), "continuous")
           y == Column(GroupRows(df_clean, group_b), "continuous")
       IN  IF Len(x) = 0 \/ Len(y) = 0
           THEN /\ pc' = "failed"
                /\ error' = "ValueError"
                /\ UNCHANGED <<u_stat, u_pval, engagement_significant>>
           ELSE \E p \in PVals :
                   /\ u_stat' = <<UStatistic(x, y)>>
                   /\ u_pval' = <<p>>
                   /\ engagement_significant' = <<Significant(p)>>
                   /\ pc' = "done"
                   /\ error' = error
    /\ UNCHANGED <<df_raw, unique_groups, group_a, group_b, threshold,
                   threshold_supplied, df_clean, removed_count, rates, raw_diff,
                   boot_sample, boot_diffs, i, prob_a_better, verdict, call_no,
                   first_result>>

Next ==
    \/ CheckGroups
    \/ Slider
    \/ Filter
    \/ RawRates
    \/ Resample
    \/ BootMeans
    \/ BootReturn
    \/ Conclusion
    \/ MannWhitney

Spec == Init /\ [][Next]_vars

----------------------------------------------------------------------------
(* The decision steps on the bootstrap result of a full-length run *)

\* iterations=1000, the default of run_bootstrapping, which the script uses.
DefaultIterations == 1000

\* A dataset whose resamples yield the differences 1, 0 and -1.
DecisionData ==
    << [group |-> Labels[1], metric |-> 1, continuous |-> 1],
       [group |-> Labels[1], metric |-> 0, continuous |-> 1],
       [group |-> Labels[2], metric |-> 1, continuous |-> 1],
       [group |-> Labels[2], metric |-> 0, continuous |-> 2],
       [group |-> Labels[2], metric |-> 0, continuous |-> 3001] >>

\* The script can reach its bootstrap call on `raw` with the slider untouched.
CanBootstrap(raw) ==
    /\ raw # <<>>
    /\ ~WrongGroupCount(UniqueGroups(raw))
    /\ SliderMin(raw) <= SliderValue(raw)
    /\ SliderValue(raw) <= SliderMax(raw)
    /\ LET clean == CleanRows(raw, SliderValue(raw))
       IN  {UniqueGroups(raw)[1], UniqueGroups(raw)[2]} \subseteq
               Range(Column(clean, "group"))

\* The state of the script at its call of run_bootstrapping (line 164) on
\* `raw`, the slider untouched.
AtBootstrapCall(raw) ==
    /\ df_raw = raw
    /\ unique_groups = UniqueGroups(raw)
    /\ group_a = UniqueGroups(raw)[1]
    /\ group_b = UniqueGroups(raw)[2]
    /\ threshold = <<SliderValue(raw)>>
    /\ threshold_supplied = FALSE
    /\ df_clean = CleanRows(raw, SliderValue(raw))
    /\ removed_count = <<Len(raw) - Len(CleanRows(raw, SliderValue(raw)))>>
    /\ rates = <<GroupByMean(CleanRows(raw, SliderValue(raw)))>>
    /\ raw_diff = <<Difference(GroupByMean(CleanRows(raw, SliderValue(raw))),
                               UniqueGroups(raw)[1], UniqueGroups(raw)[2])>>
    /\ boot_sample = <<>>
    /\ prob_a_better = <<>>
    /\ verdict = "none"
    /\ u_stat = <<>>
    /\ u_pval = <<>>
    /\ engagement_significant = <<>>
    /\ error = "none"
    /\ call_no = 1
    /\ first_result = <<>>

\* run_bootstrapping has returned DefaultIterations differences, n of them
\* positive; the script is at its conclusion logic (line 175).
InitDecision ==
    \E n \in 0..DefaultIterations, rest \in {<<0, 1>>, <<-1, 1>>} :
        /\ CanBootstrap(DecisionData)
        /\ AtBootstrapCall(DecisionData)
        /\ boot_diffs = [k \in 1..DefaultIterations |-> IF k <= n THEN <<1, 1>> ELSE rest]
        /\ i = DefaultIterations
        /\ pc = "conclusion"

NextDecision == Conclusion \/ MannWhitney

SpecDecision == InitDecision /\ [][NextDecision]_vars

----------------------------------------------------------------------------
(* The script from its call of run_bootstrapping on *)

\* Uploaded datasets whose cleaned part is any sequence of up to MaxCleanRows
\* rows of the first two groups, both present, followed by one outlier row
\* that the default threshold (3000) removes.
BootDatasets ==
    LET Body == [group : {Labels[1], Labels[2]}, metric : MetricVals, continuous : {1}]
        Outlier == [group |-> Labels[2], metric |-> 0, continuous |-> 3001]
    IN  {Append(body, Outlier) :
            body \in {b \in UNION {[1..n -> Body] : n \in 2..MaxCleanRows} :
                         /\ FirstAppearanceOrder(b)
                         /\ Labels[2] \in Range(Column(b, "group"))}}

InitBoot ==
    \E raw \in BootDatasets :
        /\ CanBootstrap(raw)
        /\ AtBootstrapCall(raw)
        /\ boot_diffs = <<>>
        /\ i = 0
        /\ pc = "boot_loop"

NextBoot ==
    \/ Resample
    \/ BootMeans
    \/ BootReturn
    \/ Conclusion
    \/ MannWhitney

SpecBoot == InitBoot /\ [][NextBoot]_vars

----------------------------------------------------------------------------
(* Two executions of run_bootstrapping on the same arguments *)

InitRepro ==
    \E raw \in BootDatasets :
        /\ CanBootstrap(raw)
        /\ AtBootstrapCall(raw)
        /\ boot_diffs = <<>>
        /\ i = 0
        /\ pc = "boot_loop"

\* Line 47, @st.cache_data: a second call with the same arguments while the
\* entry is cached returns the stored result; the body does not run.
SecondCallCached ==
    /\ pc = "boot_loop"
    /\ i >= iterations
    /\ call_no = 1
    /\ first_result' = <<boot_diffs>>
    /\ call_no' = 2
    /\ boot_sample' = <<>>
    /\ pc' = "returned"
    /\ UNCHANGED <<df_raw, unique_groups, group_a, group_b, threshold,
                   threshold_supplied, df_clean, removed_count, rates, raw_diff,
                   boot_diffs, i, prob_a_better, verdict, u_stat, u_pval,
                   engagement_significant, error>>

\* A second call with the same arguments once the cache entry is gone (cache
\* cleared, new server process): the body runs again from line 53, drawing
\* from the ambient random generator.
SecondCallFresh ==
    /\ pc = "boot_loop"
    /\ i >= iterations
    /\ call_no = 1
    /\ first_result' = <<boot_diffs>>
    /\ call_no' = 2
    /\ boot_sample' = <<>>
    /\ boot_diffs' = <<>>
    /\ i' = 0
    /\ pc' = "boot_loop"
    /\ UNCHANGED <<df_raw, unique_groups, group_a, group_b, threshold,
                   threshold_supplied, df_clean, removed_count, rates, raw_diff,
                   prob_a_better, verdict, u_stat, u_pval,
                   engagement_significant, error>>

\* Line 63: the second execution returns.
SecondReturn ==
    /\ pc = "boot_loop"
    /\ i >= iterations
    /\ call_no = 2
    /\ boot_sample' = <<>>
    /\ pc' = "returned"
    /\ UNCHANGED <<df_raw, unique_groups, group_a, group_b, threshold,
                   threshold_supplied, df_clean, removed_count, rates, raw_diff,
                   boot_diffs, i, prob_a_better, verdict, u_stat, u_pval,
                   engagement_significant, error, call_no, first_result>>

NextRepro ==
    \/ Resample
    \/ BootMeans
    \/ SecondCallCached
    \/ SecondCallFresh
    \/ SecondReturn

SpecRepro == InitRepro /\ [][NextRepro]_vars

----------------------------------------------------------------------------
(* Properties *)

GroupLabels(df) == Range(Column(df, "group"))

NoStatistic ==
    /\ rates = <<>>
    /\ raw_diff = <<>>
    /\ boot_diffs = <<>>
    /\ prob_a_better = <<>>
    /\ verdict = "none"
    /\ u_stat = <<>>
    /\ u_pval = <<>>
    /\ engagement_significant = <<>>

RunEnded == pc \in {"stopped", "failed", "done"}

Filtered == removed_count # <<>>

EmptyGroupAfterFilter ==
    /\ Filtered
    /\ \/ GroupRows(df_clean, group_a) = <<>>
       \/ GroupRows(df_clean, group_b) = <<>>

\* C1: a dataset whose group column has 0, 1 or 3 and more distinct labels
\* ends the run at the group check with the group-cardinality error, and no
\* statistic (rates, difference, bootstrap differences, probability, verdict,
\* U, p-value, significance) is ever computed in that run.
C1_WrongCardinalityStops ==
    Cardinality(GroupLabels(df_raw)) # 2 =>
        /\ NoStatistic
        /\ \/ pc = "check_groups"
           \/ pc = "stopped" /\ error = "group_cardinality"

C1_Witness ==
    /\ pc = "stopped"
    /\ error = "group_cardinality"
    /\ Cardinality(GroupLabels(df_raw)) = 3

\* C2: the verdict is A_WINS exactly when prob_a_better > 0.95, B_WINS exactly
\* when prob_a_better < 0.05 and INCONCLUSIVE otherwise (0.95 and 0.05
\* included); engagement_significant is true exactly when p_value < 0.05; the
\* verdict is a function of the probability alone and the significance of the
\* p-value alone, and a run that reaches the decision reports both.
C2_DecisionRule ==
    /\ pc \in {"conclusion", "mann_whitney", "done"}
    /\ pc # "conclusion" =>
          /\ prob_a_better # <<>>
          /\ verdict \in {"A_WINS", "B_WINS", "INCONCLUSIVE"}
          /\ verdict = "A_WINS" <=> 100 * prob_a_better[1][1] > 95 * prob_a_better[1][2]
          /\ verdict = "B_WINS" <=> 100 * prob_a_better[1][1] < 5 * prob_a_better[1][2]
          /\ verdict = "INCONCLUSIVE" <=>
                /\ 100 * prob_a_better[1][1] <= 95 * prob_a_better[1][2]
                /\ 100 * prob_a_better[1][1] >= 5 * prob_a_better[1][2]
    /\ pc = "done" =>
          /\ u_pval # <<>>
          /\ engagement_significant # <<>>
          /\ engagement_significant[1] <=> 100 * u_pval[1][1] < 5 * u_pval[1][2]

C2_Witness ==
    /\ pc = "done"
    /\ prob_a_better = << <<19, 20>> >>
    /\ verdict = "INCONCLUSIVE"
    /\ u_pval = << <<49, 1000>> >>
    /\ engagement_significant = <<TRUE>>

\* C3: when a resample contains no record of group A or none of group B, the
\* iteration is skipped and the loop goes on: the run does not fail.
C3_DegenerateResampleIsSkipped ==
    (/\ boot_sample # <<>>
     /\ \/ group_a \notin GroupLabels(boot_sample)
        \/ group_b \notin GroupLabels(boot_sample))
    => pc # "failed"

\* C4: the filter returns exactly the rows whose continuous value is strictly
\* below the threshold (a row equal to it is removed), in their original
\* order; removed_count + |df_clean| = |df_raw|; df_raw is never changed.
C4_FilterResult ==
    Filtered =>
        LET kept == {k \in 1..Len(df_raw) : df_raw[k].continuous < threshold[1]}
        IN  /\ Len(df_clean) = Cardinality(kept)
            /\ \E f \in [1..Len(df_clean) -> kept] :
                  /\ \A k \in 1..(Len(df_clean) - 1) : f[k] < f[k + 1]
                  /\ \A k \in 1..Len(df_clean) : df_clean[k] = df_raw[f[k]]
            /\ removed_count[1] + Len(df_clean) = Len(df_raw)

C4_OutlierFilter == [](C4_FilterResult) /\ [][df_raw' = df_raw]_vars

C4_Witness ==
    /\ Filtered
    /\ Len(df_clean) >= 2
    /\ \E k \in 1..Len(df_raw) : df_raw[k].continuous = threshold[1]

\* C5: when group A or group B has no row left after filtering, the run ends
\* with the "empty group" validation error, and no U statistic, p-value or
\* significance is reported.
C5_EmptyGroupIsValidationError ==
    (EmptyGroupAfterFilter /\ RunEnded) =>
        /\ error = "empty_group"
        /\ u_stat = <<>>
        /\ u_pval = <<>>
        /\ engagement_significant = <<>>

\* C6: on a cleaned dataset with two non-empty groups, every group-A row with
\* metric 1 and every group-B row with metric 0, whatever the resamples, every
\* difference produced is above 0, the probability once computed is above
\* 0.95, and the verdict is A_WINS, never B_WINS or INCONCLUSIVE.
C6_Precondition ==
    /\ Filtered
    /\ GroupRows(df_clean, group_a) # <<>>
    /\ GroupRows(df_clean, group_b) # <<>>
    /\ \A k \in 1..Len(df_clean) :
          /\ df_clean[k].group = group_a => df_clean[k].metric = 1
          /\ df_clean[k].group = group_b => df_clean[k].metric = 0

C7_SameInputsSameDifferences ==
    (call_no = 2 /\ pc = "returned") => boot_diffs = first_result[1]

\* C8: with the slider untouched, the threshold the filter applies is the
\* 99th percentile of the continuous column of df_raw.
C8_DefaultThresholdIsQ99 ==
    (threshold # <<>> /\ ~threshold_supplied) =>
        RatIsInt(Quantile99(Column(df_raw, "continuous")), threshold[1])

\* C9: rates, bootstrap differences and the rank test are computed only on a
\* cleaned dataset with exactly two distinct labels, and a run whose filter
\* removes every row of a group ends in the group-cardinality validation
\* error.
C9_ValidationOnCleaned ==
    /\ (rates # <<>> \/ boot_diffs # <<>> \/ u_stat # <<>>) =>
          Cardinality(GroupLabels(df_clean)) = 2
    /\ (Filtered /\ Cardinality(GroupLabels(df_clean)) # 2 /\ RunEnded) =>
          error = "group_cardinality"

\* C10: prob_a_better is the number of differences strictly above 0 (a
\* difference of 0 does not count) divided by the number of iterations that
\* produced a difference, which is every iteration of a run that gets this
\* far; it lies in [0, 1].
C10_ProbabilityIsShareOfPositive ==
    prob_a_better # <<>> =>
        LET n      == Len(boot_diffs)
            nonpos == Cardinality({k \in 1..n : boot_diffs[k][1] <= 0})
            p      == prob_a_better[1]
        IN  /\ n = iterations
            /\ p[2] > 0
            /\ p[1] * n = (n - nonpos) * p[2]
            /\ 0 <= p[1]
            /\ p[1] <= p[2]

C10_Witness ==
    /\ prob_a_better # <<>>
    /\ \E k \in 1..Len(boot_diffs) : boot_diffs[k][1] = 0
    /\ \E k \in 1..Len(boot_diffs) : boot_diffs[k][1] > 0
    /\ 0 < prob_a_better[1][1]
    /\ prob_a_better[1][1] < prob_a_better[1][2]

====
